---- MODULE Spec2Model ----
(***************************************************************************)
(* A model of the jess-components package: the debounce helper            *)
(* (Debounce.ts and its older variant), and the validation protocol of    *)
(* the input, textarea, checkbox and toggle factories of Components.ts,   *)
(* and the searchableSelect factory with its keyboard navigation.         *)
(*                                                                         *)
(* JavaScript runs one task at a time.  An action of this model is one    *)
(* task: an event handler, a timer callback or the continuation of a      *)
(* settled promise, together with the microtasks it leaves behind.  The   *)
(* task's synchronous call chain is written as operators that take the    *)
(* mutable state as a record s and return the record after the call.      *)
(*                                                                         *)
(* Callbacks handed in by the user (config.onchange, the validators) are  *)
(* opaque: they return normally and touch no state of the component.      *)
(***************************************************************************)
EXTENDS Integers, Sequences, FiniteSets, TLC

VARIABLES
    kind,        \* which program runs: "debounce" (the helper called directly) or a component
    cfg,         \* the configuration object handed to the factory (fixed after construction)
    now,         \* Date.now() and the clock of setTimeout
    errors,      \* errors.value: the component's error list
    touched,     \* touched.value (input)
    lastChange,  \* lastChange (input)
    value,       \* the value signal: config.value / config.checked when a signal, input's local mirror otherwise
    dom,         \* e.target.value / e.target.checked: what the DOM element holds
    debounceMap, \* Debounce.ts: debounceMap, identifier -> timer handle (0: no entry)
    timers,      \* the runtime's pending setTimeout callbacks
    nextTimer,   \* the next timer handle setTimeout returns
    inflight,    \* validator promises not yet settled, with the continuation awaiting each
    step,        \* history: what the last task did
    newest,      \* history: per identifier, the handle and time of the last delayed debounce call
    lastRun,     \* history: the last debounced action a timer executed
    lastPass,    \* history: the last invocation of validate
    nEvents,     \* history: number of external events so far (bounds the run)
    lastEdit,    \* history: the text of the last edit event while the element still holds it
    lastOnchange, \* history: the text config.onchange got for that edit, "-" while it got none
    toggleState, \* toggleState.value (input): the eye button shows the password
    options,        \* searchableSelect: options.value
    search,         \* searchableSelect: search.value
    optionsVisible, \* searchableSelect: optionsVisible.value
    filtered,       \* searchableSelect: filtered.value
    selectedIndex,  \* searchableSelect: selectedIndex.value
    selectedId,     \* searchableSelect: selectedId.value
    text,           \* searchableSelect: e.target.value, the text in the search box
    pendingSearch,  \* searchableSelect: setTimeout callbacks of the key handler not yet run
    isUrl,          \* icon: the value of the signal asSignal(config.isUrl ?? false)
    element,        \* icon: the value of the signal compute returns, the rendered node
    instances       \* two inputs on one page: per instance its inputId and lastChange

\* the state of searchableSelect besides its value signal
selectVars == <<options, search, optionsVisible, filtered, selectedIndex, selectedId, text,
                pendingSearch>>

\* the state of icon
iconVars == <<isUrl, element>>

vars == <<kind, cfg, now, errors, touched, lastChange, value, dom, debounceMap, timers,
          nextTimer, inflight, step, newest, lastRun, lastPass, nEvents, lastEdit, lastOnchange,
          toggleState, selectVars, iconVars, instances>>

----------------------------------------------------------------------------
(* Bounds of the model *)

\* external events (debounce calls, edits, signal pushes) per run
MaxEvents == 3
\* the same for a debounced input bound to a signal, without validators and not
\* required: its timers take four events to interleave
MaxEventsDebounced == 4
\* validator promises outstanding when an event arrives
MaxInflight == 2
\* clock ticks after construction
MaxTime == 4
\* the delay a component is configured with (config.debounce), when set
DebounceMs == 2

\* searchableSelect: key presses, clicks and signal writes per run
MaxSelectEvents == 3
\* searchableSelect: characters the search box takes
MaxText == 2
\* searchableSelect: setTimeout callbacks of the key handler waiting to run
MaxPending == 2

\* edits of the two inputs on one page per run
MaxInstanceEvents == 3

\* Date.now() at construction; lastChange starts at 0, far in the past
StartTime == 2 * DebounceMs + 2

\* the default delay of the older debounce variant
DefaultDelayOld == 500

\* `delay` not passed / config.debounce undefined
Omitted == 0 - 1

----------------------------------------------------------------------------
(* Values *)

Texts == {"", "a", "b"}
Checks == {"false", "true"}
IsBoolKind(k) == k \in {"checkbox", "toggle"}
ValuesOf(k) == IF IsBoolKind(k) THEN Checks ELSE Texts

HarnessKeys == {"k1", "k2"}
InputKeys == {"validate", "change", "value"}

\* the ids v4() may return
Uuids == {"u1", "u2", "u3"}

\* (mutant) an identifier without the instance's id
IdentifierBare(inputId, suffix) == suffix

\* inputId + "validate", inputId + "change", inputId + "value"
Identifier(inputId, suffix) == inputId \o suffix

\* the identifiers of a run: for one component its three actions stand for their
\* identifiers, for two inputs on one page the identifiers are spelled out
Keys ==
    IF kind = "inputs"
    THEN {Identifier(u, k) : u \in Uuids, k \in InputKeys}
    ELSE HarnessKeys \cup InputKeys

NoClosure == [fn |-> "none", arg |-> "-"]

\* JavaScript's undefined, where an id is expected
Undefined == "undefined"


----------------------------------------------------------------------------
(* Configurations: the inputs of a run, drawn from small sets *)

Kinds == {"debounce", "input", "textarea", "checkbox", "toggle"}

\* The validator functions a configuration may list.  1 answers at once; 2 and 3
\* return a promise that settles later; 4 throws before it returns, which inside the
\* async callback of forEach is a rejection of that callback's promise.
ValidatorIds == {1, 2, 3, 4}
IsAsync(id) == id \in {2, 3}
ValidatorLists == {<<>>, <<1>>, <<2, 1>>, <<3, 2>>}

Msg(id, x, n) == [by |-> id, for |-> x, n |-> n]
\* "This field is required."
RequiredMsg == [by |-> 0, for |-> "-", n |-> 1]

Null == [kind |-> "null", msgs |-> <<>>]
Rejected == [kind |-> "rejected", msgs |-> <<>>]
Errs(m) == [kind |-> "errors", msgs |-> m]

\* What validator id answers for x: a list of messages, null, or a rejected promise.
ValidatorFn(id, x) ==
    CASE id = 1 -> IF x \in {"a", "false"} THEN Errs(<<Msg(1, x, 1)>>) ELSE Null
      [] id = 2 -> IF x \in {"a", "false"} THEN Errs(<<Msg(2, x, 1)>>)
                   ELSE IF x = "b" THEN Errs(<<Msg(2, x, 1), Msg(2, x, 2)>>)
                   ELSE Null
      [] id = 3 -> IF x \in {"b", "true"} THEN Rejected
                   ELSE IF x = "a" THEN Errs(<<Msg(3, x, 1)>>)
                   ELSE Null
      [] OTHER  -> IF x \in {"", "false"} THEN Rejected ELSE Null

HarnessConfigs ==
    [variant : {"ts", "old"}, isSignal : {FALSE}, required : {FALSE}, debounce : {Omitted},
     validators : {<<>>}, onchange : {FALSE}, notifySame : {FALSE}, initial : {""}, type : {"text"}]

\* type "password" gives the input its eye button;
\* whether a signal notifies on a write of the value it holds is the signal library's
\* choice: both are modelled where the component writes the caller's signal itself
InputConfigs ==
    [variant : {"ts"}, isSignal : {FALSE}, required : BOOLEAN, debounce : {Omitted},
     validators : {<<>>, <<2, 1>>}, onchange : BOOLEAN, notifySame : {FALSE}, initial : {""}, type : {"text"}]
    \cup
    [variant : {"ts"}, isSignal : {TRUE}, required : BOOLEAN, debounce : {Omitted},
     validators : {<<>>, <<1>>, <<3, 2>>}, onchange : {TRUE}, notifySame : BOOLEAN,
     initial : {""}, type : {"text"}]
    \cup
    [variant : {"ts"}, isSignal : BOOLEAN, required : BOOLEAN, debounce : {DebounceMs},
     validators : {<<>>, <<1>>}, onchange : {FALSE}, notifySame : {TRUE}, initial : {""},
     type : {"text"}]
    \cup
    [variant : {"ts"}, isSignal : {FALSE}, required : {TRUE}, debounce : {DebounceMs},
     validators : {<<2, 1>>}, onchange : {FALSE}, notifySame : {TRUE}, initial : {""},
     type : {"password"}]
    \cup
    [variant : {"ts"}, isSignal : {TRUE}, required : {FALSE}, debounce : {DebounceMs},
     validators : {<<>>}, onchange : {TRUE}, notifySame : {FALSE}, initial : {""}, type : {"text"}]

TextareaConfigs ==
    [variant : {"ts"}, isSignal : BOOLEAN, required : BOOLEAN, debounce : {Omitted},
     validators : ValidatorLists, onchange : {TRUE}, notifySame : {FALSE}, initial : {""}, type : {"text"}]
    \cup
    [variant : {"ts"}, isSignal : BOOLEAN, required : {TRUE}, debounce : {Omitted},
     validators : {<<1>>}, onchange : {TRUE}, notifySame : {FALSE}, initial : {"a"},
     type : {"text"}]

BooleanConfigs ==
    [variant : {"ts"}, isSignal : BOOLEAN, required : BOOLEAN, debounce : {Omitted},
     validators : {<<>>, <<1>>, <<2, 1>>, <<4, 2>>}, onchange : {TRUE}, notifySame : {FALSE},
     initial : Checks, type : {"checkbox"}]

ConfigsOf(k) ==
    CASE k = "debounce" -> HarnessConfigs
      [] k = "input"    -> InputConfigs
      [] k = "textarea" -> TextareaConfigs
      [] OTHER          -> BooleanConfigs

----------------------------------------------------------------------------
(* The mutable state of a task, as a record *)

\* ev: the task; key: the identifier it was about; calls: debounce calls it made, falsy:
\* those with a delay of 0 or none; runs: closures it executed; passes: calls of validate;
\* log: the onchange invocations and the writes of the bound value it made, in order
NoStep == [ev |-> "init", key |-> "-", calls |-> 0, falsy |-> 0, runs |-> 0, passes |-> 0,
           log |-> <<>>]
NoCall == [id |-> 0, at |-> 0]
NoRun == [id |-> 0, key |-> "-", setAt |-> 0, delay |-> 0, at |-> 0, newestId |-> 0, newestAt |-> 0]
\* n: calls of validate so far (2: two or more); val: the last call's argument; ran: it
\* went on to the validators (it was not deferred); clean: no validator promise of an
\* earlier call was outstanding; touched: touched.value then; replaced: the list it
\* cleared held errors; via: who called it ("factory", "handler": an event handler,
\* "signal": the value signal notifying, "timer": the closure validate left with debounce)
NoPass == [n |-> 0, val |-> "-", ran |-> FALSE, clean |-> TRUE, touched |-> FALSE,
           replaced |-> FALSE, via |-> "-"]

Cur ==
    [errors |-> errors, touched |-> touched, lastChange |-> lastChange, value |-> value,
     dom |-> dom, debounceMap |-> debounceMap, timers |-> timers, nextTimer |-> nextTimer,
     inflight |-> inflight, micro |-> <<>>, step |-> step, newest |-> newest,
     lastPass |-> lastPass, caller |-> "handler"]

\* the state a factory starts from, before it runs validate
Fresh(initial) ==
    [errors |-> <<>>, touched |-> FALSE, lastChange |-> 0, value |-> initial,
     dom |-> initial, debounceMap |-> [k \in Keys |-> 0], timers |-> {}, nextTimer |-> 1,
     inflight |-> <<>>, micro |-> <<>>, step |-> NoStep, newest |-> [k \in Keys |-> NoCall],
     lastPass |-> NoPass, caller |-> "factory"]

\* how many external events a run of this configuration takes
EventBound ==
    IF /\ kind = "input" /\ cfg.isSignal /\ cfg.debounce = DebounceMs
       /\ cfg.validators = <<>> /\ ~cfg.required
    THEN MaxEventsDebounced
    ELSE MaxEvents

\* an external event may arrive
MayArrive == nEvents < EventBound /\ Len(inflight) <= MaxInflight

Begin(ev) == [Cur EXCEPT !.step = [NoStep EXCEPT !.ev = ev]]

----------------------------------------------------------------------------
(* The synchronous call chains *)

RECURSIVE RunFn(_, _), debounce(_, _, _, _), validate(_, _), setValue(_, _)

\* clearTimeout(handle): a handle of a timer that has fired, or that is firing, clears nothing
clearTimeout(ts, handle) == {t \in ts : t.id # handle}

\* debounceMap[identifier] = setTimeout(callback, delay)
setTimeout(s, identifier, func, delay) ==
    [s EXCEPT !.timers = @ \cup {[id |-> s.nextTimer, key |-> identifier, func |-> func,
                                  due |-> now + delay, setAt |-> now, delay |-> delay]},
              !.debounceMap[identifier] = s.nextTimer,
              !.nextTimer = @ + 1,
              !.newest[identifier] = [id |-> s.nextTimer, at |-> now]]

\* if (debounceMap[identifier]) clearTimeout(debounceMap[identifier])
clearPending(s, identifier) ==
    IF s.debounceMap[identifier] # 0
    THEN [s EXCEPT !.timers = clearTimeout(@, s.debounceMap[identifier])]
    ELSE s

\* (mutant) Debounce.ts without its shortcut for a falsy delay
debounceTsAlwaysTimer(s, identifier, func, delay) ==
    LET d == IF delay = Omitted THEN 0 ELSE delay IN
    setTimeout(clearPending(s, identifier), identifier, func, d)

\* Debounce.ts: delay defaults to 0, and a falsy delay runs func at once
debounceTs(s, identifier, func, delay) ==
    LET d == IF delay = Omitted THEN 0 ELSE delay IN
    IF d = 0
    THEN RunFn(s, func)
    ELSE setTimeout(clearPending(s, identifier), identifier, func, d)

\* the older variant: delay defaults to 500, and every call goes through a timer
debounceOld(s, identifier, func, delay) ==
    LET d == IF delay = Omitted THEN DefaultDelayOld ELSE delay IN
    setTimeout(clearPending(s, identifier), identifier, func, d)

\* the debounce the caller imports
debounce(s, identifier, func, delay) ==
    LET s1 == [s EXCEPT !.step.calls = @ + 1,
                        !.step.falsy = IF delay \in {Omitted, 0} THEN @ + 1 ELSE @]
    IN IF cfg.variant = "old"
       THEN debounceOld(s1, identifier, func, delay)
       ELSE debounceTs(s1, identifier, func, delay)

\* config.debounce is set and not 0
HasDebounce == cfg.debounce # Omitted /\ cfg.debounce # 0

\* (mutant) forEach with a callback that is not async: a validator that fails ends the pass
RECURSIVE forEachValidatorThrows(_, _, _)
forEachValidatorThrows(s, vs, newValue) ==
    IF vs = <<>> THEN s
    ELSE LET id == Head(vs)
             k == [by |-> id, res |-> ValidatorFn(id, newValue)]
             s1 == IF IsAsync(id)
                   THEN [s EXCEPT !.inflight = Append(@, k)]
                   ELSE [s EXCEPT !.micro = Append(@, k)]
         IN IF k.res = Rejected THEN s ELSE forEachValidatorThrows(s1, Tail(vs), newValue)

RECURSIVE forEachValidator(_, _, _)
\* config.validators?.forEach(async valFunction => { const valErrors = await valFunction(newValue); ... })
\* every validator is called now; the code after its await runs later: in a microtask of
\* this task when the validator answered at once, when its promise settles otherwise
forEachValidator(s, vs, newValue) ==
    IF vs = <<>> THEN s
    ELSE LET id == Head(vs)
             k == [by |-> id, res |-> ValidatorFn(id, newValue)]
             s1 == IF IsAsync(id)
                   THEN [s EXCEPT !.inflight = Append(@, k)]
                   ELSE [s EXCEPT !.micro = Append(@, k)]
         IN forEachValidator(s1, Tail(vs), newValue)

\* if (valErrors) errors.value = errors.value.concat(valErrors): a rejected await never gets here
afterAwait(s, k) ==
    IF k.res.kind = "errors" THEN [s EXCEPT !.errors = @ \o k.res.msgs] ELSE s

\* newValue === null || newValue === undefined || newValue === ""
isEmptyText(x) == x = ""
\* newValue === null || newValue === undefined || newValue === false
isUnchecked(x) == x = "false"

addRequired(s) == [s EXCEPT !.errors = Append(@, RequiredMsg)]

\* history: validate was invoked with newValue on the list `before`; ran says whether it
\* went on to the validators
notePass(s, before, newValue, ran) ==
    [s EXCEPT !.step.passes = @ + 1,
              !.lastPass = [n |-> IF s.lastPass.n < 2 THEN s.lastPass.n + 1 ELSE 2,
                            val |-> newValue, ran |-> ran,
                            clean |-> s.inflight = <<>>, touched |-> s.touched,
                            replaced |-> before # <<>>, via |-> s.caller]]

\* (mutant) input's validate with the required rule not asking for touched
inputValidateUntouched(s, newValue) ==
    LET s1 == [s EXCEPT !.errors = <<>>] IN
    IF HasDebounce /\ now - s1.lastChange < cfg.debounce
    THEN debounce(notePass(s1, s.errors, newValue, FALSE), "validate",
                  [fn |-> "validate", arg |-> newValue], cfg.debounce)
    ELSE LET s2 == forEachValidator(notePass(s1, s.errors, newValue, TRUE), cfg.validators, newValue) IN
         IF cfg.required /\ isEmptyText(newValue) THEN addRequired(s2) ELSE s2

inputValidate(s, newValue) ==
    LET s1 == [s EXCEPT !.errors = <<>>] IN
    IF HasDebounce /\ now - s1.lastChange < cfg.debounce
    THEN debounce(notePass(s1, s.errors, newValue, FALSE), "validate",
                  [fn |-> "validate", arg |-> newValue], cfg.debounce)
    ELSE LET s2 == forEachValidator(notePass(s1, s.errors, newValue, TRUE), cfg.validators, newValue) IN
         IF cfg.required /\ isEmptyText(newValue) /\ s2.touched THEN addRequired(s2) ELSE s2

\* (mutant) textarea's validate appending to the list it finds
textareaValidateAppend(s, newValue) ==
    LET s2 == forEachValidator(notePass(s, s.errors, newValue, TRUE), cfg.validators, newValue)
    IN IF cfg.required /\ isEmptyText(newValue) THEN addRequired(s2) ELSE s2

textareaValidate(s, newValue) ==
    LET s1 == [s EXCEPT !.errors = <<>>]
        s2 == forEachValidator(notePass(s1, s.errors, newValue, TRUE), cfg.validators, newValue)
    IN IF cfg.required /\ isEmptyText(newValue) THEN addRequired(s2) ELSE s2

\* (mutant) checkbox's validate appending to the list it finds
checkboxValidateAppend(s, newValue) ==
    LET s2 == forEachValidator(notePass(s, s.errors, newValue, TRUE), cfg.validators, newValue)
    IN IF cfg.required /\ isUnchecked(newValue) THEN addRequired(s2) ELSE s2

checkboxValidate(s, newValue) ==
    LET s1 == [s EXCEPT !.errors = <<>>]
        s2 == forEachValidator(notePass(s1, s.errors, newValue, TRUE), cfg.validators, newValue)
    IN IF cfg.required /\ isUnchecked(newValue) THEN addRequired(s2) ELSE s2

toggleValidate(s, newValue) ==
    LET s1 == [s EXCEPT !.errors = <<>>]
        s2 == forEachValidator(notePass(s1, s.errors, newValue, TRUE), cfg.validators, newValue)
    IN IF cfg.required /\ isUnchecked(newValue) THEN addRequired(s2) ELSE s2

validate(s, newValue) ==
    CASE kind = "input"    -> inputValidate(s, newValue)
      [] kind = "textarea" -> textareaValidate(s, newValue)
      [] kind = "checkbox" -> checkboxValidate(s, newValue)
      [] OTHER             -> toggleValidate(s, newValue)

\* the subscribers of the value signal, in subscription order: validate when the
\* signal is the caller's, then the binding that writes the DOM property
notify(s, x) ==
    LET s1 == IF cfg.isSignal THEN validate([s EXCEPT !.caller = "signal"], x) ELSE s IN
    [s1 EXCEPT !.dom = x, !.caller = s.caller]

\* value.value = x
setValue(s, x) ==
    LET changed == s.value # x
        s1 == [s EXCEPT !.value = x]
    IN IF changed \/ cfg.notifySame THEN notify(s1, x) ELSE s1

\* the closures handed to debounce; e.target.value is read when the closure runs
RunFn(s, func) ==
    LET s1 == [s EXCEPT !.step.runs = @ + 1]
        s2 == [s1 EXCEPT !.step.log = Append(@, [fn |-> func.fn, arg |-> s.dom])]
    IN
    CASE func.fn = "validate" -> [validate([s1 EXCEPT !.caller = "timer"], func.arg)
                                    EXCEPT !.caller = s.caller]
      \* () => config.onchange(e.target.value)
      [] func.fn = "change"   -> s2
      \* () => value.value = e.target.value
      [] func.fn = "value"    -> setValue(s2, s2.dom)
      [] OTHER                -> s1

\* (mutant) the timer callback leaving its entry in the map
timerCallbackKeepsEntry(s, t) == RunFn(s, t.func)

\* setTimeout(() => { func(); delete debounceMap[identifier]; }, delay)
timerCallback(s, t) ==
    LET s1 == RunFn(s, t.func) IN
    [s1 EXCEPT !.debounceMap[t.key] = 0]

RECURSIVE drain(_)
\* the microtasks the task left behind run before the next task
drain(s) ==
    IF s.micro = <<>> THEN s
    ELSE drain(afterAwait([s EXCEPT !.micro = Tail(@)], Head(s.micro)))

----------------------------------------------------------------------------
(* The event handlers *)

\* (mutant) input's edit handlers leaving touched alone
inputOnEditUntouched(s) ==
    LET s1 == [s EXCEPT !.lastChange = now]
        s2 == IF ~cfg.isSignal THEN validate(s1, s1.dom) ELSE s1
        s3 == IF cfg.onchange
              THEN debounce(s2, "change", [fn |-> "change", arg |-> "-"], cfg.debounce)
              ELSE s2
    IN debounce(s3, "value", [fn |-> "value", arg |-> "-"], cfg.debounce)

\* (mutant) input's edit handlers validating also when the value is a signal
inputOnEditValidates(s) ==
    LET s1 == [s EXCEPT !.touched = TRUE, !.lastChange = now]
        s2 == validate(s1, s1.dom)
        s3 == IF cfg.onchange
              THEN debounce(s2, "change", [fn |-> "change", arg |-> "-"], cfg.debounce)
              ELSE s2
    IN debounce(s3, "value", [fn |-> "value", arg |-> "-"], cfg.debounce)

\* (mutant) input's edit handlers writing the bound value at once
inputOnEditWritesAtOnce(s) ==
    LET s1 == [s EXCEPT !.touched = TRUE, !.lastChange = now]
        s2 == IF ~cfg.isSignal THEN validate(s1, s1.dom) ELSE s1
        s3 == IF cfg.onchange
              THEN debounce(s2, "change", [fn |-> "change", arg |-> "-"], cfg.debounce)
              ELSE s2
    IN debounce(s3, "value", [fn |-> "value", arg |-> "-"], Omitted)

\* (mutant) input's edit handlers writing the bound value before they call onchange
inputOnEditWritesFirst(s) ==
    LET s1 == [s EXCEPT !.touched = TRUE, !.lastChange = now]
        s2 == IF ~cfg.isSignal THEN validate(s1, s1.dom) ELSE s1
        s3 == debounce(s2, "value", [fn |-> "value", arg |-> "-"], cfg.debounce)
    IN IF cfg.onchange
       THEN debounce(s3, "change", [fn |-> "change", arg |-> "-"], cfg.debounce)
       ELSE s3

\* input: .oninput and .onchange run the same body
inputOnEdit(s) ==
    LET s1 == [s EXCEPT !.touched = TRUE, !.lastChange = now]
        s2 == IF ~cfg.isSignal THEN validate(s1, s1.dom) ELSE s1
        s3 == IF cfg.onchange
              THEN debounce(s2, "change", [fn |-> "change", arg |-> "-"], cfg.debounce)
              ELSE s2
    IN debounce(s3, "value", [fn |-> "value", arg |-> "-"], cfg.debounce)

\* (mutant) textarea's edit handlers never validating
textareaOnEditSilent(s) == s

\* textarea: .oninput and .onchange run the same body; config.onchange is opaque
textareaOnEdit(s) ==
    IF ~cfg.isSignal THEN validate(s, s.dom) ELSE s

\* checkbox: .onclick
checkboxOnClick(s) ==
    IF ~cfg.isSignal THEN validate(s, s.dom) ELSE s

\* toggle: .onclick
toggleOnClick(s) ==
    IF ~cfg.isSignal THEN validate(s, s.dom) ELSE s

onEdit(s) ==
    CASE kind = "input"    -> inputOnEdit(s)
      [] kind = "textarea" -> textareaOnEdit(s)
      [] kind = "checkbox" -> checkboxOnClick(s)
      [] OTHER             -> toggleOnClick(s)

\* the factory body: subscribe validate to a signal value, validate the initial value
construct(initial) == drain(validate(Fresh(initial), initial))

----------------------------------------------------------------------------
(* The specification *)

\* the text the task's last invocation of config.onchange got, or the text `was` when
\* the task made none
Handed(log, was) ==
    LET calls == {i \in 1..Len(log) : log[i].fn = "change"} IN
    IF calls = {} THEN was ELSE log[CHOOSE i \in calls : \A j \in calls : j <= i].arg

\* the timer the runtime fires next: the earliest due, the oldest among equals
NextTimer(ts) ==
    CHOOSE t \in ts : \A u \in ts : t.due < u.due \/ (t.due = u.due /\ t.id <= u.id)

Commit(s) ==
    /\ errors' = s.errors
    /\ touched' = s.touched
    /\ lastChange' = s.lastChange
    /\ value' = s.value
    /\ dom' = s.dom
    /\ debounceMap' = s.debounceMap
    /\ timers' = s.timers
    /\ nextTimer' = s.nextTimer
    /\ inflight' = s.inflight
    /\ step' = s.step
    /\ newest' = s.newest
    /\ lastPass' = s.lastPass

\* no node
NoElement == [tag |-> "-", classes |-> {}, text |-> Undefined, src |-> Undefined]

\* the icon variables of a run of another component
NoIcon ==
    /\ isUrl = FALSE
    /\ element = NoElement

\* the select variables of a run of another component
NoSelect ==
    /\ options = <<>>
    /\ search = <<>>
    /\ optionsVisible = FALSE
    /\ filtered = <<>>
    /\ selectedIndex = 0
    /\ selectedId = Undefined
    /\ text = <<>>
    /\ pendingSearch = 0

Init ==
    /\ kind \in Kinds
    /\ cfg \in ConfigsOf(kind)
    /\ now = StartTime
    /\ LET s == IF kind = "debounce" THEN Fresh(cfg.initial) ELSE construct(cfg.initial) IN
       /\ errors = s.errors
       /\ touched = s.touched
       /\ lastChange = s.lastChange
       /\ value = s.value
       /\ dom = s.dom
       /\ debounceMap = s.debounceMap
       /\ timers = s.timers
       /\ nextTimer = s.nextTimer
       /\ inflight = s.inflight
       /\ step = s.step
       /\ newest = s.newest
       /\ lastPass = s.lastPass
    /\ lastRun = NoRun
    /\ nEvents = 0
    /\ lastEdit = "-"
    /\ lastOnchange = "-"
    /\ toggleState = FALSE
    /\ NoSelect
    /\ NoIcon
    /\ instances = <<>>

\* some code of the package calls debounce(identifier, func) or debounce(identifier, func, delay)
DebounceCall(identifier, delay) ==
    /\ kind = "debounce"
    /\ MayArrive
    /\ Commit(drain(debounce([Begin("call") EXCEPT !.step.key = identifier], identifier,
                             [fn |-> "plain", arg |-> "-"], delay)))
    /\ nEvents' = nEvents + 1
    /\ UNCHANGED <<iconVars, instances, selectVars, toggleState, kind, cfg, now, lastRun, lastEdit, lastOnchange>>

\* the user types into the input or the textarea: an input event
OnInput(x) ==
    /\ kind \in {"input", "textarea"}
    /\ MayArrive
    /\ x # dom
    /\ Commit(drain(onEdit([Begin("input") EXCEPT !.dom = x])))
    /\ nEvents' = nEvents + 1
    /\ lastEdit' = x
    /\ lastOnchange' = Handed(step'.log, "-")
    /\ UNCHANGED <<iconVars, instances, selectVars, toggleState, kind, cfg, now, lastRun>>

\* the element commits its text: a change event
OnChange ==
    /\ kind \in {"input", "textarea"}
    /\ MayArrive
    /\ Commit(drain(onEdit(Begin("change"))))
    /\ nEvents' = nEvents + 1
    /\ lastEdit' = dom
    /\ lastOnchange' = Handed(step'.log, "-")
    /\ UNCHANGED <<iconVars, instances, selectVars, toggleState, kind, cfg, now, lastRun>>

\* the user clicks the checkbox or the toggle: the element flips its checked state
OnClick ==
    /\ kind \in {"checkbox", "toggle"}
    /\ MayArrive
    /\ Commit(drain(onEdit([Begin("click") EXCEPT
                              !.dom = IF dom = "true" THEN "false" ELSE "true"])))
    /\ nEvents' = nEvents + 1
    /\ UNCHANGED <<iconVars, instances, selectVars, toggleState, kind, cfg, now, lastRun, lastEdit, lastOnchange>>

\* the owner of the value signal writes another value to it
SignalPush(x) ==
    /\ kind # "debounce"
    /\ cfg.isSignal
    /\ MayArrive
    /\ x # value
    /\ Commit(drain(setValue(Begin("push"), x)))
    /\ nEvents' = nEvents + 1
    /\ lastEdit' = IF dom' = lastEdit THEN lastEdit ELSE "-"
    /\ lastOnchange' = IF dom' = lastEdit THEN lastOnchange ELSE "-"
    /\ UNCHANGED <<iconVars, instances, selectVars, toggleState, kind, cfg, now, lastRun>>

\* input: const isPassword = config.type === InputType.password
isPassword == cfg.type = "password"

\* input: the type the element is rendered with,
\* compute(t => t ? InputType.text : configTypeSignal.value, toggleState)
actualType == IF toggleState THEN "text" ELSE cfg.type

\* (mutant) the eye button showing the password whatever the state was
eyeOnClickShows(t) == TRUE

\* input: the eye button's onClick, toggleState.value = !toggleState.value
eyeOnClick(t) == ~t

\* the user clicks the eye button, which a password input has
EyeClick ==
    /\ kind = "input"
    /\ isPassword
    /\ toggleState' = eyeOnClick(toggleState)
    /\ step' = [NoStep EXCEPT !.ev = "eye"]
    /\ UNCHANGED <<iconVars, instances, selectVars, kind, cfg, now, errors, touched, lastChange, value, dom,
                   debounceMap, timers, nextTimer, inflight, newest, lastRun, lastPass,
                   nEvents, lastEdit, lastOnchange>>

\* the runtime fires a timer that is due
Fire ==
    /\ timers # {}
    /\ LET t == NextTimer(timers) IN
       /\ t.due <= now
       /\ Commit(drain(timerCallback([Begin("fire") EXCEPT !.step.key = t.key,
                                                           !.timers = @ \ {t}], t)))
       /\ lastRun' = [id |-> t.id, key |-> t.key, setAt |-> t.setAt, delay |-> t.delay,
                      at |-> now, newestId |-> newest[t.key].id,
                      newestAt |-> newest[t.key].at]
    /\ lastOnchange' = Handed(step'.log, lastOnchange)
    /\ UNCHANGED <<iconVars, instances, selectVars, toggleState, kind, cfg, now, nEvents, lastEdit>>

\* a validator's promise settles and the code after its await runs
Settle(i) ==
    /\ i \in 1..Len(inflight)
    /\ Commit(drain(afterAwait(
           [Begin("settle") EXCEPT !.inflight = SubSeq(@, 1, i - 1) \o SubSeq(@, i + 1, Len(@))],
           inflight[i])))
    /\ UNCHANGED <<iconVars, instances, selectVars, toggleState, kind, cfg, now, lastRun, nEvents, lastEdit, lastOnchange>>

\* time passes: by one unit, or up to the moment the next timer is due (the clock is
\* read by setTimeout and by input's validate under config.debounce only)
Tick ==
    /\ kind = "debounce" \/ cfg.debounce = DebounceMs
    /\ \/ /\ now < StartTime + MaxTime
          /\ now' = now + 1
       \/ /\ timers # {}
          /\ NextTimer(timers).due > now
          /\ now' = NextTimer(timers).due
    /\ step' = [NoStep EXCEPT !.ev = "tick"]
    /\ UNCHANGED <<iconVars, instances, selectVars, toggleState, kind, cfg, errors, touched, lastChange, value,
                   dom, debounceMap, timers, nextTimer, inflight, newest, lastRun, lastPass,
                   nEvents, lastEdit, lastOnchange>>

Next ==
    \/ \E k \in HarnessKeys, d \in {Omitted, 0, DebounceMs} : DebounceCall(k, d)
    \/ \E x \in Texts : OnInput(x)
    \/ OnChange
    \/ OnClick
    \/ EyeClick
    \/ \E x \in Texts \cup Checks : SignalPush(x)
    \/ Fire
    \/ \E i \in 1..2 * MaxInflight + 2 : Settle(i)
    \/ Tick

Spec == Init /\ [][Next]_vars

----------------------------------------------------------------------------
(* searchableSelect *)

\* a string is the sequence of its characters
Lower(c) == CASE c = "A" -> "a" [] c = "B" -> "b" [] c = "C" -> "c" [] OTHER -> c
\* String.prototype.toLowerCase
toLowerCase(str) == [i \in 1..Len(str) |-> Lower(str[i])]
\* String.prototype.includes
includes(str, part) ==
    \E i \in 0..(Len(str) - Len(part)) : SubSeq(str, i + 1, i + Len(part)) = part

Option(id, name) == [id |-> id, name |-> name]
NoOption == Option(Undefined, <<>>)
\* the result of an arithmetic operation that has none: x % 0
NaN == 0 - 9

\* the option lists the options signal is given
OptionLists ==
    { <<>>,
      <<Option("1", <<"A">>), Option("2", <<"B">>)>>,
      <<Option("1", <<"A">>), Option("2", <<"B">>), Option("3", <<"C">>)>>,
      <<Option("1", <<"a", "b">>), Option("2", <<"B">>)>> }

\* the values the value signal is given: null, ids of options, an id of no option
SelectValues == {"null", "1", "2", "9"}

SelectConfigs == [options : OptionLists, initial : {"null", "2", "9"}, notifySame : BOOLEAN]

\* the keys of a keydown event, each with the e.keyCode browsers give it
KeyCode(key) ==
    CASE key = "Enter" -> 13 [] key = "ArrowDown" -> 40 [] key = "ArrowUp" -> 38
      [] key = "Escape" -> 27 [] key = "Tab" -> 9 [] key = "Backspace" -> 8
      [] key = " " -> 32 [] key = "." -> 190 [] OTHER -> 66
\* the keys that type a character: a letter, the space bar, the full stop
CharKeys == {"b", " ", "."}
AllKeys == {"Enter", "ArrowDown", "ArrowUp", "Escape", "Tab", "Backspace"} \cup CharKeys

\* list[i] of a JavaScript array: undefined outside 0..length-1
At(list, i) == IF i \in 0..(Len(list) - 1) THEN list[i + 1] ELSE NoOption
\* list[i]?.id
IdAt(list, i) == At(list, i).id

\* options.value.find(o => o.id === v)?.name ?? ""
nameOf(opts, v) ==
    LET hits == {i \in 1..Len(opts) : opts[i].id = v} IN
    IF hits = {} THEN <<>> ELSE opts[CHOOSE i \in hits : \A j \in hits : i <= j].name

\* options.value.findIndex(o => o.name.toLowerCase().includes(search.value.toLowerCase()))
findIndex(opts, str) ==
    LET hits == {i \in 1..Len(opts) : includes(toLowerCase(opts[i].name), toLowerCase(str))} IN
    IF hits = {} THEN 0 - 1 ELSE (CHOOSE i \in hits : \A j \in hits : i <= j) - 1

\* a % n as JavaScript computes it
jsRem(a, n) ==
    IF a = NaN \/ n = 0 THEN NaN
    ELSE IF a >= 0 THEN a % n ELSE 0 - ((0 - a) % n)

CurSelect ==
    [value |-> value, options |-> options, search |-> search,
     optionsVisible |-> optionsVisible, filtered |-> filtered,
     selectedIndex |-> selectedIndex, selectedId |-> selectedId, text |-> text,
     pendingSearch |-> pendingSearch]

\* a signal's subscribers run when the write changes the value, and on a write of
\* the same value when the signal library notifies of those too
notifies(old, new) == old # new \/ cfg.notifySame

\* const updateSelectedId = () => { selectedId.value = filtered.value[selectedIndex.value]?.id; }
updateSelectedId(s) == [s EXCEPT !.selectedId = IdAt(s.filtered, s.selectedIndex)]

\* selectedIndex.value = i, with its subscriber updateSelectedId
setSelectedIndex(s, i) ==
    LET s1 == [s EXCEPT !.selectedIndex = i] IN
    IF notifies(s.selectedIndex, i) THEN updateSelectedId(s1) ELSE s1

\* const filter = () => { selectedIndex.value = options.value.findIndex(...) }
filter(s) == setSelectedIndex(s, findIndex(s.options, s.search))

\* search.value = str, with its subscribers: filter, and the binding that writes the search box
setSearch(s, str) ==
    LET s1 == [s EXCEPT !.search = str] IN
    IF notifies(s.search, str) THEN [filter(s1) EXCEPT !.text = str] ELSE s1

\* (mutant) the value signal without the subscriber that mirrors search
setSelectValueSilent(s, v) == [s EXCEPT !.value = v]

\* value.value = v, with its subscriber: search.value = options.value.find(o => o.id === newVal)?.name ?? ""
setSelectValue(s, v) ==
    LET s1 == [s EXCEPT !.value = v] IN
    IF notifies(s.value, v) THEN setSearch(s1, nameOf(s1.options, v)) ELSE s1

\* options.value = opts, with its subscriber filter; filtered keeps the list it was created with
setOptions(s, opts) ==
    LET s1 == [s EXCEPT !.options = opts] IN
    IF notifies(s.options, opts) THEN filter(s1) ELSE s1

\* the factory body up to the element: the signals are created and wired
constructSelect(opts, v) ==
    LET s0 == [value |-> v, options |-> opts, search |-> nameOf(opts, v),
               optionsVisible |-> FALSE, filtered |-> opts, selectedIndex |-> 0,
               selectedId |-> Undefined, text |-> nameOf(opts, v), pendingSearch |-> 0]
        \* filter() runs before updateSelectedId is subscribed
        s1 == [s0 EXCEPT !.selectedIndex = findIndex(opts, s0.search)]
        \* const selectedId = signal(options.value[0]?.id ?? null)
        s2 == [s1 EXCEPT !.selectedId = IF opts = <<>> THEN "null" ELSE opts[1].id]
    IN updateSelectedId(s2)

\* (mutant) an option's onclick leaving search to the subscriber of value
optionOnClickKeepsSearch(s, option) ==
    [setSelectValue(s, option.id) EXCEPT !.optionsVisible = FALSE]

\* searchSelectOption: .onclick of the element of config.option
optionOnClick(s, option) ==
    LET s1 == setSelectValue(s, option.id)
        s2 == setSearch(s1, option.name)
    IN [s2 EXCEPT !.optionsVisible = FALSE]

\* (mutant) Enter committing the first option of the list
onEnterFirst(s) ==
    LET selectedOption == At(s.filtered, 0)
        s1 == setSelectValue(s, IF selectedOption = NoOption THEN s.value ELSE selectedOption.id)
        s2 == setSearch(s1, IF selectedOption = NoOption THEN s1.search ELSE selectedOption.name)
    IN [s2 EXCEPT !.optionsVisible = FALSE]

\* .onkeydown, case "Enter"
onEnter(s) ==
    LET selectedOption == At(s.filtered, s.selectedIndex)
        s1 == setSelectValue(s, IF selectedOption = NoOption THEN s.value ELSE selectedOption.id)
        s2 == setSearch(s1, IF selectedOption = NoOption THEN s1.search ELSE selectedOption.name)
    IN [s2 EXCEPT !.optionsVisible = FALSE]

\* (mutant) ArrowDown stopping at the last option
onArrowDownClamps(s) ==
    setSelectedIndex(s, IF s.selectedIndex + 1 < Len(s.filtered)
                        THEN s.selectedIndex + 1 ELSE s.selectedIndex)

\* .onkeydown, case "ArrowDown"
onArrowDown(s) ==
    setSelectedIndex(s, jsRem(IF s.selectedIndex = NaN THEN NaN ELSE s.selectedIndex + 1,
                              Len(s.filtered)))

\* .onkeydown, case "ArrowUp"
onArrowUp(s) ==
    setSelectedIndex(s, jsRem(IF s.selectedIndex = NaN THEN NaN
                              ELSE s.selectedIndex - 1 + Len(s.filtered),
                              Len(s.filtered)))

\* (mutant) Escape and Tab committing the highlighted option as Enter does
onEscapeCommits(s) == onEnter(s)

\* .onkeydown, case "Escape" and case "Tab"
onEscape(s) == [s EXCEPT !.optionsVisible = FALSE]

\* (e.keyCode > 32 && e.keyCode < 126) || e.key === "Backspace"
updatesSearch(key) == (KeyCode(key) > 32 /\ KeyCode(key) < 126) \/ key = "Backspace"

\* .onkeydown, default: setTimeout(() => { search.value = e.target.value; })
onOtherKey(s, key) ==
    IF updatesSearch(key) THEN [s EXCEPT !.pendingSearch = @ + 1] ELSE s

\* .onkeydown
onkeydown(s, key) ==
    CASE key = "Enter"              -> onEnter(s)
      [] key = "ArrowDown"          -> onArrowDown(s)
      [] key = "ArrowUp"            -> onArrowUp(s)
      [] key \in {"Escape", "Tab"}  -> onEscape(s)
      [] OTHER                      -> onOtherKey(s, key)

\* what the browser does with the key once the handler has returned: a character is
\* typed into the search box, Backspace deletes the last one
defaultAction(s, key) ==
    CASE key \in CharKeys /\ Len(s.text) < MaxText -> [s EXCEPT !.text = Append(@, key)]
      [] key = "Backspace" /\ s.text # <<>>        -> [s EXCEPT !.text = SubSeq(@, 1, Len(@) - 1)]
      [] OTHER                                     -> s

\* the callback of the key handler's setTimeout: search.value = e.target.value
searchCallback(s) == setSearch([s EXCEPT !.pendingSearch = @ - 1], s.text)

CommitSelect(s) ==
    /\ value' = s.value
    /\ options' = s.options
    /\ search' = s.search
    /\ optionsVisible' = s.optionsVisible
    /\ filtered' = s.filtered
    /\ selectedIndex' = s.selectedIndex
    /\ selectedId' = s.selectedId
    /\ text' = s.text
    /\ pendingSearch' = s.pendingSearch

\* the variables searchableSelect has no use for
componentVars == <<iconVars, instances, now, errors, touched, lastChange, dom, debounceMap, timers, nextTimer,
                   inflight, newest, lastRun, lastPass, lastEdit, lastOnchange, toggleState>>

InitSelect ==
    /\ kind = "searchableSelect"
    /\ cfg \in SelectConfigs
    /\ now = StartTime
    /\ errors = <<>>
    /\ touched = FALSE
    /\ lastChange = 0
    /\ dom = ""
    /\ debounceMap = [k \in Keys |-> 0]
    /\ timers = {}
    /\ nextTimer = 1
    /\ inflight = <<>>
    /\ step = NoStep
    /\ newest = [k \in Keys |-> NoCall]
    /\ lastRun = NoRun
    /\ lastPass = NoPass
    /\ nEvents = 0
    /\ lastEdit = "-"
    /\ lastOnchange = "-"
    /\ toggleState = FALSE
    /\ NoIcon
    /\ instances = <<>>
    /\ LET s == constructSelect(cfg.options, cfg.initial) IN
       /\ value = s.value
       /\ options = s.options
       /\ search = s.search
       /\ optionsVisible = s.optionsVisible
       /\ filtered = s.filtered
       /\ selectedIndex = s.selectedIndex
       /\ selectedId = s.selectedId
       /\ text = s.text
       /\ pendingSearch = s.pendingSearch

SelectEvent(ev, key) ==
    /\ kind = "searchableSelect"
    /\ nEvents < MaxSelectEvents
    /\ nEvents' = nEvents + 1
    /\ step' = [NoStep EXCEPT !.ev = ev, !.key = key]
    /\ UNCHANGED <<kind, cfg, componentVars>>

\* the search box gets the focus: .onfocus
Focus ==
    /\ SelectEvent("focus", "-")
    /\ CommitSelect([CurSelect EXCEPT !.optionsVisible = TRUE])

\* the user clicks the arrow next to the search box: optionsVisible.value = !optionsVisible.value
DropdownClick ==
    /\ SelectEvent("dropdown", "-")
    /\ CommitSelect([CurSelect EXCEPT !.optionsVisible = ~@])

\* the user clicks the i-th option of the open dropdown, which shows filtered
OptionClick(i) ==
    /\ optionsVisible
    /\ i \in 1..Len(filtered)
    /\ SelectEvent("click", filtered[i].id)
    /\ CommitSelect(optionOnClick(CurSelect, filtered[i]))

\* the user presses a key in the search box
KeyDown(key) ==
    /\ pendingSearch < MaxPending
    /\ SelectEvent("key", key)
    /\ CommitSelect(defaultAction(onkeydown(CurSelect, key), key))

\* the owner of the value signal writes another value to it
ValuePush(v) ==
    /\ v # value
    /\ SelectEvent("value", v)
    /\ CommitSelect(setSelectValue(CurSelect, v))

\* the owner of the options signal writes another list to it
OptionsPush(opts) ==
    /\ opts # options
    /\ SelectEvent("options", "-")
    /\ CommitSelect(setOptions(CurSelect, opts))

\* the runtime runs a callback the key handler left with setTimeout
SearchTimer ==
    /\ kind = "searchableSelect"
    /\ pendingSearch > 0
    /\ CommitSelect(searchCallback(CurSelect))
    /\ step' = [NoStep EXCEPT !.ev = "timer"]
    /\ UNCHANGED <<kind, cfg, componentVars, nEvents>>

NextSelect ==
    \/ Focus
    \/ DropdownClick
    \/ \E i \in 1..3 : OptionClick(i)
    \/ \E key \in AllKeys : KeyDown(key)
    \/ \E v \in SelectValues : ValuePush(v)
    \/ \E opts \in OptionLists : OptionsPush(opts)
    \/ SearchTimer

SpecSelect == InitSelect /\ [][NextSelect]_vars

----------------------------------------------------------------------------
(* icon *)

\* IconConfig: isUrl is left out, a boolean, or a signal of one; the icon name or
\* address is not changed during a run
IconConfigs ==
    [icon : {"/x.svg", "home"}, isUrl : {"absent", "true", "false"}, isSignal : BOOLEAN,
     adaptive : BOOLEAN, title : BOOLEAN, notifySame : BOOLEAN]

\* config.isUrl ?? false
isUrlOrFalse(c) == c.isUrl = "true"

iconClass == IF cfg.adaptive THEN "adaptive-icon" ELSE "static-icon"
pointerClass == IF cfg.title THEN "_" ELSE "no-pointer"

\* the callback icon gives to compute
renderIcon(isImage) ==
    IF ~isImage
    THEN [tag |-> "i", classes |-> {iconClass, "material-symbols-outlined", pointerClass},
          text |-> cfg.icon, src |-> Undefined]
    ELSE [tag |-> "img", classes |-> {iconClass, pointerClass},
          text |-> Undefined, src |-> cfg.icon]

CurIcon == [isUrl |-> isUrl, element |-> element, step |-> step]

\* (mutant) a flag whose changes are not followed
setIsUrlSilent(s, b) == [s EXCEPT !.isUrl = b]

\* the owner of the isUrl signal writes to it: compute's subscription renders again
setIsUrl(s, b) ==
    IF notifies(s.isUrl, b)
    THEN [s EXCEPT !.isUrl = b, !.element = renderIcon(b), !.step.runs = @ + 1]
    ELSE [s EXCEPT !.isUrl = b]

InitIcon ==
    /\ kind = "icon"
    /\ cfg \in IconConfigs
    /\ cfg.isUrl = "absent" => ~cfg.isSignal
    /\ now = StartTime
    /\ errors = <<>>
    /\ touched = FALSE
    /\ lastChange = 0
    /\ value = ""
    /\ dom = ""
    /\ debounceMap = [k \in Keys |-> 0]
    /\ timers = {}
    /\ nextTimer = 1
    /\ inflight = <<>>
    /\ step = NoStep
    /\ newest = [k \in Keys |-> NoCall]
    /\ lastRun = NoRun
    /\ lastPass = NoPass
    /\ nEvents = 0
    /\ lastEdit = "-"
    /\ lastOnchange = "-"
    /\ toggleState = FALSE
    /\ NoSelect
    /\ instances = <<>>
    /\ isUrl = isUrlOrFalse(cfg)
    /\ element = renderIcon(isUrlOrFalse(cfg))

\* the owner of the isUrl signal writes b to it
FlagPush(b) ==
    /\ kind = "icon"
    /\ cfg.isSignal
    /\ nEvents < MaxEvents
    /\ nEvents' = nEvents + 1
    /\ LET s == setIsUrl([CurIcon EXCEPT !.step = [NoStep EXCEPT !.ev = "flag"]], b) IN
       /\ isUrl' = s.isUrl
       /\ element' = s.element
       /\ step' = s.step
    /\ UNCHANGED <<kind, cfg, now, errors, touched, lastChange, value, dom, debounceMap,
                   timers, nextTimer, inflight, newest, lastRun, lastPass, lastEdit,
                   lastOnchange, toggleState, selectVars, instances>>

NextIcon == \E b \in BOOLEAN : FlagPush(b)

SpecIcon == InitIcon /\ [][NextIcon]_vars

----------------------------------------------------------------------------
(* Two inputs on one page, sharing debounceMap *)

\* two calls of v4() return two ids
V4Pairs == {p \in Uuids \X Uuids : p[1] # p[2]}

\* both inputs have config.debounce set; their validators play no part here
InstanceConfigs ==
    [variant : {"ts"}, debounce : {DebounceMs}, isSignal : BOOLEAN, onchange : BOOLEAN,
     inputIds : V4Pairs]

Owners == {"1", "2"}
IndexOf(owner) == IF owner = "1" THEN 1 ELSE 2
OwnerOf(i) == IF i = 1 THEN "1" ELSE "2"

\* validate of instance i, with lastChange as the caller finds it: the pass is put
\* off under the instance's identifier, or runs
instanceValidate(s, i, lc) ==
    IF now - lc < cfg.debounce
    THEN debounce(s, Identifier(instances[i].inputId, "validate"),
                  [fn |-> "validate", arg |-> OwnerOf(i)], cfg.debounce)
    ELSE [s EXCEPT !.step.passes = @ + 1]

\* .oninput and .onchange of instance i
instanceOnEdit(s, i) ==
    LET id == instances[i].inputId
        s1 == IF ~cfg.isSignal THEN instanceValidate(s, i, now) ELSE s
        s2 == IF cfg.onchange
              THEN debounce(s1, Identifier(id, "change"),
                            [fn |-> "change", arg |-> OwnerOf(i)], cfg.debounce)
              ELSE s1
    IN debounce(s2, Identifier(id, "value"), [fn |-> "value", arg |-> OwnerOf(i)],
                cfg.debounce)

\* the closures of an instance: func.arg is the instance that made the closure
instanceRun(s, func) ==
    LET i == IndexOf(func.arg)
        s1 == [s EXCEPT !.step.runs = @ + 1]
    IN CASE func.fn = "validate" -> instanceValidate(s1, i, instances[i].lastChange)
         \* a signal-bound value notifies validate of the text written
         [] func.fn = "value" /\ cfg.isSignal
                                 -> instanceValidate(s1, i, instances[i].lastChange)
         [] OTHER                -> s1

\* setTimeout(() => { func(); delete debounceMap[identifier]; }, delay)
instanceTimerCallback(s, t) ==
    LET s1 == instanceRun(s, t.func) IN
    [s1 EXCEPT !.debounceMap[t.key] = 0]

InitInstances ==
    /\ kind = "inputs"
    /\ cfg \in InstanceConfigs
    /\ now = StartTime
    /\ instances = [i \in 1..2 |-> [inputId |-> cfg.inputIds[i], lastChange |-> 0]]
    /\ LET s == Fresh("") IN
       /\ errors = s.errors
       /\ touched = s.touched
       /\ lastChange = s.lastChange
       /\ value = s.value
       /\ dom = s.dom
       /\ debounceMap = s.debounceMap
       /\ timers = s.timers
       /\ nextTimer = s.nextTimer
       /\ inflight = s.inflight
       /\ step = s.step
       /\ newest = s.newest
       /\ lastPass = s.lastPass
    /\ lastRun = NoRun
    /\ nEvents = 0
    /\ lastEdit = "-"
    /\ lastOnchange = "-"
    /\ toggleState = FALSE
    /\ NoSelect
    /\ NoIcon

\* the user edits the text of instance i
InstanceEdit(i) ==
    /\ kind = "inputs"
    /\ nEvents < MaxInstanceEvents
    /\ nEvents' = nEvents + 1
    /\ instances' = [instances EXCEPT ![i].lastChange = now]
    /\ Commit(instanceOnEdit([Begin("edit") EXCEPT !.step.key = OwnerOf(i)], i))
    /\ UNCHANGED <<iconVars, selectVars, toggleState, kind, cfg, now, lastRun, lastEdit,
                   lastOnchange>>

\* the runtime runs the callback of a timer that is due
InstanceFire ==
    /\ kind = "inputs"
    /\ timers # {}
    /\ LET t == NextTimer(timers) IN
       /\ t.due <= now
       /\ Commit(instanceTimerCallback([Begin("fire") EXCEPT !.step.key = t.func.arg,
                                                             !.timers = @ \ {t}], t))
       /\ lastRun' = [id |-> t.id, key |-> t.key, setAt |-> t.setAt, delay |-> t.delay,
                      at |-> now, newestId |-> newest[t.key].id,
                      newestAt |-> newest[t.key].at]
    /\ UNCHANGED <<iconVars, instances, selectVars, toggleState, kind, cfg, now, nEvents,
                   lastEdit, lastOnchange>>

NextInstances ==
    \/ \E i \in 1..2 : InstanceEdit(i)
    \/ InstanceFire
    \/ Tick

SpecInstances == InitInstances /\ [][NextInstances]_vars

----------------------------------------------------------------------------
(* The debounce helper *)

\* C1: of the debounce calls made with one identifier, each while the action of the
\* one before is pending, only the last call's action executes: an action that a
\* timer executes is the action of the newest delayed call with its identifier.
C1_OnlyLastCallExecutes ==
    lastRun.id # 0 => lastRun.id = lastRun.newestId

\* C2: a debounced action never executes earlier than its delay after the most
\* recent delayed debounce call with its identifier.
C2_FullDelayFromLastCall ==
    lastRun.id # 0 => lastRun.at >= lastRun.newestAt + lastRun.delay

\* C3: in Debounce.ts a call with a delay of 0 or none executes func once before it
\* returns and schedules nothing: a task whose debounce calls all have such a delay
\* executes one closure per call and leaves the timers and the pending map as they were.
C3_FalsyDelayRunsAtOnce ==
    [][(cfg.variant = "ts" /\ step'.falsy > 0 /\ step'.falsy = step'.calls)
         => /\ step'.runs = step'.falsy
            /\ timers' = timers
            /\ debounceMap' = debounceMap
            /\ nextTimer' = nextTimer]_vars

C3_Witness ==
    /\ kind = "debounce"
    /\ cfg.variant = "ts"
    /\ step.ev = "call"
    /\ step.falsy = 1
    /\ step.runs = 1
    /\ debounceMap[step.key] # 0

----------------------------------------------------------------------------
(* Validation *)

Range(q) == {q[i] : i \in 1..Len(q)}
Count(m, q) == Cardinality({i \in 1..Len(q) : q[i] = m})
SameBag(p, q) == \A m \in Range(p) \cup Range(q) : Count(m, p) = Count(m, q)
SubBag(p, q) == \A m \in Range(p) : Count(m, p) <= Count(m, q)
Without(m, q) == SelectSeq(q, LAMBDA e : e # m)

RECURSIVE InValidatorOrder(_, _)
\* the validators' results for x that are lists, concatenated in the order of the validators
InValidatorOrder(vs, x) ==
    IF vs = <<>> THEN <<>>
    ELSE (IF ValidatorFn(Head(vs), x).kind = "errors" THEN ValidatorFn(Head(vs), x).msgs ELSE <<>>)
         \o InValidatorOrder(Tail(vs), x)

\* the required rule applies to a pass for x made while touched was t
RequiredApplies(x, t) ==
    /\ cfg.required
    /\ IF IsBoolKind(kind) THEN x = "false" ELSE x = ""
    /\ kind = "input" => t

\* every message a pass for x made while touched was t is to publish
Expected(x, t) ==
    InValidatorOrder(cfg.validators, x) \o (IF RequiredApplies(x, t) THEN <<RequiredMsg>> ELSE <<>>)

\* the last call of validate ran the validators, overlapped no other pass, and every
\* validator has settled
PassCompleted == kind # "debounce" /\ inflight = <<>> /\ lastPass.ran /\ lastPass.clean

\* C5: after a completed pass for x that no other pass overlapped, the error list is
\* the validators' results for x in validator order, plus the required message when
\* the required rule applies (wherever in the list the message stands).
C5_ErrorsInValidatorOrder ==
    PassCompleted =>
        /\ Without(RequiredMsg, errors) = InValidatorOrder(cfg.validators, lastPass.val)
        /\ Count(RequiredMsg, errors)
             = (IF RequiredApplies(lastPass.val, lastPass.touched) THEN 1 ELSE 0)

\* C6: a pass replaces the error list: in the task that runs it the list holds only
\* messages of that pass, and once it has completed without overlap the list holds
\* each message the pass is to publish once, whatever the list held before; so a
\* second pass on the same value leaves what the first left.
C6_ReplaceNotAppend ==
    /\ (kind # "debounce" /\ step.passes > 0)
         => SubBag(errors, IF lastPass.ran THEN Expected(lastPass.val, lastPass.touched) ELSE <<>>)
    /\ PassCompleted => SameBag(errors, Expected(lastPass.val, lastPass.touched))

C6_Witness ==
    /\ kind = "textarea"
    /\ ~cfg.isSignal
    /\ step.ev = "change"
    /\ PassCompleted
    /\ lastPass.replaced
    /\ lastPass.n = 2
    /\ errors = Expected(dom, FALSE)
    /\ errors # <<>>

\* the value the component is about: its signal, or the DOM element's when it has none
Governing == IF cfg.isSignal THEN value ELSE dom

\* C7: with every validator call settled and no debounced action pending, the error
\* list holds only errors computed for the current value.
C7_NeverStale ==
    (kind # "debounce" /\ inflight = <<>> /\ timers = {}) =>
        \A i \in 1..Len(errors) :
            IF errors[i] = RequiredMsg
            THEN RequiredApplies(Governing, TRUE)
            ELSE errors[i].for = Governing

\* C8: input adds the required message only in passes made while touched is true;
\* textarea, checkbox and toggle add it in every pass whose value is empty (false),
\* the pass of the construction included.
C8_RequiredOnceTouched ==
    /\ kind = "input" =>
          /\ ~touched => RequiredMsg \notin Range(errors)
          /\ RequiredMsg \in Range(errors) <=>
                (cfg.required /\ lastPass.ran /\ lastPass.val = "" /\ lastPass.touched)
    /\ kind \in {"textarea", "checkbox", "toggle"} =>
          (RequiredMsg \in Range(errors) <=>
                (cfg.required /\ lastPass.val = (IF IsBoolKind(kind) THEN "false" ELSE "")))

C8_Witness ==
    /\ kind = "input"
    /\ cfg.required
    /\ ~touched
    /\ lastPass.n = 2
    /\ lastPass.ran
    /\ lastPass.val = ""
    /\ step.ev = "push"
    /\ RequiredMsg \notin Range(errors)

\* C9: a required checkbox without validators shows exactly the required message
\* when validate last ran with checked = false, and nothing when with checked = true.
C9_CheckboxRequired ==
    (kind = "checkbox" /\ cfg.required /\ cfg.validators = <<>>) =>
        errors = (IF lastPass.val = "false" THEN <<RequiredMsg>> ELSE <<>>)

C9_Witness ==
    /\ kind = "checkbox"
    /\ cfg.required
    /\ cfg.validators = <<>>
    /\ lastPass.n = 2
    /\ step.ev = "click"
    /\ lastPass.val = "false"
    /\ errors = <<RequiredMsg>>

EditEvents == {"input", "change", "click"}

\* the factory has validated the initial value
ConstructionPass == kind # "debounce" => (lastPass.n = 1 /\ lastPass.val = cfg.initial)

\* a validate call is deferred by input under config.debounce only
DeferredOnlyByInput ==
    (step'.passes > 0 /\ ~lastPass'.ran) => (kind = "input" /\ cfg.debounce = DebounceMs)

\* the edited value is on its way to the signal: written, or in the pending "value" action
ValueWriteUnderWay ==
    IF cfg.debounce = DebounceMs
    THEN \E t \in timers' : t.id = debounceMap'["value"] /\ t.func.fn = "value"
    ELSE value' = dom'

----------------------------------------------------------------------------
(* The input component *)

InputEdits == {"input", "change"}

\* the pending debounced actions of an identifier
PendingFor(ts, key) == {t \in ts : t.key = key}

\* the task has left the action of key pending once, registered in the map, set now
\* and due config.debounce later
DebouncedOnce(key) ==
    \E t \in timers' :
        /\ PendingFor(timers', key) = {t}
        /\ t.id = debounceMap'[key]
        /\ t.setAt = now
        /\ t.due = now + cfg.debounce

\* the edit has validated the text of the element, or has the validation under way:
\* without a signal by calling validate, which may defer itself under config.debounce;
\* with a signal by writing the text to the signal, at once or debounced
EditedValueValidated ==
    IF cfg.isSignal
    THEN /\ ValueWriteUnderWay
         /\ (~HasDebounce /\ (value # dom' \/ cfg.notifySame))
              => (step'.passes = 1 /\ lastPass'.val = dom' /\ lastPass'.ran)
    ELSE /\ step'.passes = 1
         /\ lastPass'.val = dom'
         /\ \/ lastPass'.ran
            \/ \E t \in timers' : /\ t.id = debounceMap'["validate"]
                                  /\ t.func = [fn |-> "validate", arg |-> dom']

C12_EyeFlipsVisibilityOnly ==
    /\ kind = "input" => actualType = cfg.type
    /\ [][step'.ev = "eye" =>
            /\ toggleState' = ~toggleState
            /\ actualType' = (IF actualType = "text" THEN cfg.type ELSE "text")
            /\ actualType' # actualType
            /\ UNCHANGED <<touched, value, dom, errors, lastChange, debounceMap, timers,
                           inflight>>]_vars

C12_Witness ==
    /\ kind = "input"
    /\ isPassword
    /\ step.ev = "eye"
    /\ ~toggleState
    /\ actualType = "password"
    /\ touched
    /\ timers # {}
    /\ errors # <<>>

\* C13: with config.debounce unset every edit event of input invokes onchange and
\* writes the bound value inside the handler, in this order, with the element's text.
\* With config.debounce = d an edit event writes nothing and invokes nothing; it
\* leaves exactly one write and (with onchange configured) one onchange invocation
\* pending, due d later, whatever earlier edits had left pending; each runs once, not
\* earlier than d after the last edit, with the text of the last edit.
C13_BurstWritesOnce ==
    [][kind = "input" =>
         /\ (step'.ev \in InputEdits /\ ~HasDebounce) =>
               /\ step'.log = (IF cfg.onchange THEN <<[fn |-> "change", arg |-> dom']>> ELSE <<>>)
                                \o <<[fn |-> "value", arg |-> dom']>>
               /\ value' = dom'
               /\ timers' = timers
         /\ (step'.ev \in InputEdits /\ HasDebounce) =>
               /\ step'.log = <<>>
               /\ value' = value
               /\ DebouncedOnce("value")
               /\ IF cfg.onchange THEN DebouncedOnce("change")
                                  ELSE PendingFor(timers', "change") = {}
         /\ (step'.ev = "fire" /\ step'.key \in {"value", "change"}) =>
               /\ step'.log = <<[fn |-> step'.key, arg |-> dom]>>
               /\ lastEdit # "-" => dom = lastEdit
               /\ step'.key = "value" => value' = dom
               /\ now >= lastChange + cfg.debounce
               /\ PendingFor(timers', step'.key) = {}]_vars

C13_Witness ==
    /\ kind = "input"
    /\ ~cfg.isSignal
    /\ HasDebounce
    /\ nEvents = 2
    /\ step.ev = "fire"
    /\ step.key = "value"
    /\ lastRun.setAt = StartTime + 1
    /\ step.log = <<[fn |-> "value", arg |-> "b"]>>
    /\ value = "b"
    /\ lastEdit = "b"

\* C14: when input's value is a signal the edit handlers never call validate: every
\* pass is made by the factory, by the signal notifying its subscribers, or by the
\* timer of a pass that deferred itself; a pass made during an edit event is made by
\* the signal, for the text the handler has just written to it.
C14_SignalBoundEditsValidateThroughSignal ==
    (kind = "input" /\ cfg.isSignal) =>
        /\ step.passes <= 1
        /\ lastPass.via \in {"factory", "signal", "timer"}
        /\ lastPass.via = "timer" => HasDebounce
        /\ (step.ev \in InputEdits /\ step.passes > 0) =>
              /\ lastPass.via = "signal"
              /\ lastPass.val = value
              /\ value = dom
              /\ step.log # <<>>
              /\ step.log[Len(step.log)] = [fn |-> "value", arg |-> dom]

C14_Witness ==
    /\ kind = "input"
    /\ cfg.isSignal
    /\ step.ev = "input"
    /\ step.passes = 1
    /\ lastPass.via = "signal"
    /\ lastPass.val = dom
    /\ lastPass.n = 2
    /\ touched

----------------------------------------------------------------------------
(* searchableSelect: selection and keyboard *)

\* the option the highlight index points at in the list shown, NoOption when at none
Highlighted == At(filtered, selectedIndex)

\* C15: a click on an option o of the dropdown sets value to o.id, search to o.name
\* and closes the dropdown, whatever value, search and the highlight were.
C15_ClickSelects ==
    [][step'.ev = "click" =>
         \E i \in 1..Len(filtered) :
             /\ filtered[i].id = step'.key
             /\ value' = filtered[i].id
             /\ search' = filtered[i].name
             /\ optionsVisible' = FALSE]_vars

C15_Witness ==
    /\ kind = "searchableSelect"
    /\ options = <<Option("1", <<"A">>), Option("2", <<"B">>)>>
    /\ cfg.initial = "9"
    /\ step.ev = "click"
    /\ step.key = "2"
    /\ value = "2"
    /\ search = <<"B">>
    /\ ~optionsVisible

\* C16: the highlighted id is the id of the option at the highlight index, and Enter
\* commits that option h: afterwards value = h.id, search = h.name and the dropdown
\* is closed.
C16_EnterCommitsHighlighted ==
    /\ kind = "searchableSelect" => selectedId = Highlighted.id
    /\ [][(step'.ev = "key" /\ step'.key = "Enter" /\ Highlighted # NoOption) =>
            /\ selectedId = Highlighted.id
            /\ value' = Highlighted.id
            /\ search' = Highlighted.name
            /\ optionsVisible' = FALSE]_vars

C16_Witness ==
    /\ kind = "searchableSelect"
    /\ step.ev = "key"
    /\ step.key = "Enter"
    /\ value = "3"
    /\ search = <<"C">>
    /\ text = <<"C">>
    /\ ~optionsVisible

C18_EscapeClosesOnly ==
    [][(step'.ev = "key" /\ step'.key \in {"Escape", "Tab"}) =>
          /\ optionsVisible' = FALSE
          /\ UNCHANGED <<value, search, selectedIndex, selectedId, options, text,
                         pendingSearch>>]_vars

C18_Witness ==
    /\ kind = "searchableSelect"
    /\ step.ev = "key"
    /\ step.key = "Escape"
    /\ ~optionsVisible
    /\ selectedIndex = 1
    /\ search = <<>>
    /\ value = cfg.initial
    /\ nEvents = 3

\* the keys that type a printable character, and Backspace
TypingKeys == CharKeys \cup {"Backspace"}

\* C19: a key press that types a printable character, or Backspace, leaves search and
\* value as they are inside the key handler and leaves an update of search pending;
\* when the update runs search becomes the text of the search box, the highlight is
\* recomputed from it, and value stays as it is.
C19_TypingUpdatesSearchLater ==
    [][/\ (step'.ev = "key" /\ step'.key \in TypingKeys) =>
             /\ UNCHANGED <<search, value, selectedIndex, selectedId>>
             /\ pendingSearch' = pendingSearch + 1
       /\ step'.ev = "timer" =>
             /\ search' = text
             /\ value' = value
             /\ (search' # search \/ cfg.notifySame) =>
                   /\ selectedIndex' = findIndex(options, text)
                   /\ selectedId' = IdAt(filtered, selectedIndex')]_vars

\* str is the name of the first option of opts with id v, and empty when there is none
Mirrors(opts, v, str) ==
    \/ \E i \in 1..Len(opts) : /\ opts[i].id = v
                               /\ \A j \in 1..(i - 1) : opts[j].id # v
                               /\ str = opts[i].name
    \/ /\ \A i \in 1..Len(opts) : opts[i].id # v
       /\ str = <<>>

\* C20: after an external write of another value v to the value signal search is the
\* name of the option of the current options whose id is v, and empty when there is
\* none; the factory initialises search by the same rule.
C20_SearchFollowsValue ==
    /\ kind = "searchableSelect" => Mirrors(options, value, search)
    /\ [][step'.ev = "value" => Mirrors(options, value', search')]_vars

C20_Witness ==
    /\ kind = "searchableSelect"
    /\ cfg.initial = "9"
    /\ step.ev = "value"
    /\ value = "2"
    /\ search = <<"B">>
    /\ text = <<"B">>
    /\ nEvents = 1

----------------------------------------------------------------------------
(* Pending timers and deferred passes *)

\* C24: every debounced action that is scheduled and has not fired has its timer in
\* the pending map under its identifier, so that the next debounce call with the
\* identifier cancels it.
C24_PendingTimersAreRegistered ==
    \A t \in timers : debounceMap[t.key] = t.id

\* C25: for an input with config.debounce, once nothing is pending any more the last
\* validation pass that ran is a pass for the current value: no deferred pass for an
\* earlier value has run after it.
C25_LastPassIsForCurrentValue ==
    (kind = "input" /\ HasDebounce /\ timers = {}) =>
        (lastPass.ran /\ lastPass.val = Governing)

\* C26: whenever input writes the bound value with the text of an edit and
\* config.onchange is configured, onchange has been invoked with that text before:
\* earlier in the same task when nothing is debounced, in an earlier task (the timer
\* of the "change" action, which is gone by then) when both are debounced.
C26_OnchangeBeforeWrite ==
    [][(kind = "input" /\ cfg.onchange) =>
          \A i \in 1..Len(step'.log) :
              (step'.log[i].fn = "value" /\ lastEdit' # "-" /\ step'.log[i].arg = lastEdit') =>
                  /\ \/ \E j \in 1..(i - 1) : step'.log[j] = [fn |-> "change", arg |-> lastEdit']
                     \/ lastOnchange = lastEdit'
                  /\ PendingFor(timers', "change") = {}
                  /\ value' = lastEdit'
                  /\ (cfg.isSignal /\ step'.passes > 0) => lastPass'.via = "signal"]_vars

C26_Witness ==
    /\ kind = "input"
    /\ cfg.onchange
    /\ HasDebounce
    /\ step.ev = "fire"
    /\ step.key = "value"
    /\ step.log = <<[fn |-> "value", arg |-> "b"]>>
    /\ lastOnchange = "b"
    /\ lastEdit = "b"
    /\ value = "b"

\* a validator of the configuration fails for x
SomeValidatorFails(x) ==
    \E i \in 1..Len(cfg.validators) : ValidatorFn(cfg.validators[i], x) = Rejected

\* C23: a validator that fails does not end the pass or the task that made it: the
\* pass goes on to the other validators and to the required rule, and once every
\* validator has settled the list holds the results of the validators that did not
\* fail and the required message when the rule applies, and nothing else.
C23_FailingValidatorIsSkipped ==
    (kind # "debounce" /\ lastPass.ran /\ SomeValidatorFails(lastPass.val)) =>
        /\ step.passes > 0 =>
              /\ Count(RequiredMsg, errors)
                   = (IF RequiredApplies(lastPass.val, lastPass.touched) THEN 1 ELSE 0)
              /\ lastPass.clean =>
                   \A i \in 1..Len(cfg.validators) :
                       LET id == cfg.validators[i] IN
                       (IsAsync(id) /\ ValidatorFn(id, lastPass.val).kind = "errors")
                           => \E j \in 1..Len(inflight) : inflight[j].by = id
        /\ (lastPass.clean /\ inflight = <<>>) =>
              SameBag(errors, Expected(lastPass.val, lastPass.touched))

C23_Witness ==
    /\ kind = "checkbox"
    /\ cfg.required
    /\ cfg.validators = <<4, 2>>
    /\ step.ev = "settle"
    /\ lastPass.n = 2
    /\ lastPass.val = "false"
    /\ lastPass.clean
    /\ inflight = <<>>
    /\ SameBag(errors, <<Msg(2, "false", 1), RequiredMsg>>)

(* searchableSelect: the highlight *)

\* C27: with a non-empty option list the highlight index is an integer in 0..n-1
\* in every reachable state.
C27_HighlightIndexInRange ==
    (kind = "searchableSelect" /\ options # <<>>) =>
        selectedIndex \in 0..(Len(options) - 1)

\* C28: after every operation the highlighted id is the id of the option at the
\* highlight index in the current options (undefined when out of range), and the
\* list that is displayed and navigated is the current options.
C28_DisplayedListIsOptions ==
    kind = "searchableSelect" =>
        /\ filtered = options
        /\ selectedId = IdAt(options, selectedIndex)

\* C29: immediately after an option o is selected by a click or by Enter, or value
\* is set from outside to o.id, the highlighted option is o.
C29_SelectedIsHighlighted ==
    [][/\ step'.ev = "click" => Highlighted'.id = step'.key
       /\ (step'.ev = "key" /\ step'.key = "Enter" /\ Highlighted # NoOption)
             => Highlighted' = Highlighted
       /\ (step'.ev = "value" /\ \E i \in 1..Len(options) : options[i].id = step'.key)
             => Highlighted'.id = step'.key]_vars

\* C30: Enter with no option highlighted leaves value and search as they are and
\* closes the dropdown.
C30_EnterWithoutHighlight ==
    [][(step'.ev = "key" /\ step'.key = "Enter" /\ Highlighted = NoOption) =>
          /\ value' = value
          /\ search' = search
          /\ ~optionsVisible']_vars

(* icon *)

\* C21: icon renders an image node whose src is the icon value exactly when the
\* isUrl flag is true, and a glyph node whose text is the icon value when it is
\* false or left out; the node follows every change of a flag given as a signal.
C21_NodeKindFollowsFlag ==
    kind = "icon" =>
        /\ element.tag \in {"i", "img"}
        /\ element.tag = "img" <=> isUrl
        /\ isUrl => (element.src = cfg.icon /\ element.text = Undefined)
        /\ ~isUrl => (element.text = cfg.icon /\ element.src = Undefined)
        /\ cfg.isUrl = "absent" => element.tag = "i"
        /\ ~cfg.isSignal => (isUrl <=> cfg.isUrl = "true")

C21_Witness ==
    /\ kind = "icon"
    /\ cfg.isSignal
    /\ cfg.isUrl = "false"
    /\ cfg.icon = "/x.svg"
    /\ step.ev = "flag"
    /\ step.runs = 1
    /\ isUrl
    /\ element.tag = "img"
    /\ element.src = "/x.svg"

(* Identifiers of the debounced actions *)

\* the identifier instance i uses for the action a
IdentifierOf(i, a) == Identifier(instances[i].inputId, a)

\* C22: the identifiers of an input are its generated id followed by "validate",
\* "change" or "value": three identifiers per instance, none shared with another
\* instance; every pending timer is registered under the identifier of its own
\* instance and action, and a timer that goes away without firing was replaced in the
\* same task by a timer of the same action of the same instance, the instance the
\* task belongs to.
C22_NoCrossCancellation ==
    /\ kind = "inputs" =>
          /\ \A i, j \in 1..2 : \A a, b \in InputKeys :
                 IdentifierOf(i, a) = IdentifierOf(j, b) => (i = j /\ a = b)
          /\ \A t \in timers : t.key = IdentifierOf(IndexOf(t.func.arg), t.func.fn)
    /\ [][kind = "inputs" =>
            \A t \in timers \ timers' :
                \/ step'.ev = "fire" /\ t = NextTimer(timers)
                \/ /\ t.func.arg = step'.key
                   /\ \E u \in timers' \ timers : u.func = t.func /\ u.key = t.key]_vars

C22_Witness ==
    /\ kind = "inputs"
    /\ step.ev = "edit"
    /\ step.key = "2"
    /\ \E t \in timers : t.func = [fn |-> "value", arg |-> "1"] /\ t.setAt < now
    /\ \E u \in timers : u.func = [fn |-> "value", arg |-> "2"] /\ u.setAt = now /\ u.id > 6

====
